---- MODULE Spec2Model ----
(***************************************************************************)
(* InsightSentinel (Synapse): the agent orchestration loop                 *)
(* (AgentOrchestrator.run, architecture/agent-design), the crawler request *)
(* helper BaseCrawler._request_with_retry, the SSE response of             *)
(* POST /api/v1/agent/execute and the frontend stream consumer             *)
(* AgentService.executeWithStream / abort.                                 *)
(*                                                                         *)
(* One task is modelled.  `pc` is the position of the generator `run`,     *)
(* `mode` the position inside the helper (_plan, _execute_step, ...) that  *)
(* `run` is iterating.  The bodies of the helpers are not part of the      *)
(* repository sources; they follow the written design (sections 4.1-4.5,   *)
(* 7) and are marked as such in the model map.                             *)
(***************************************************************************)
EXTENDS Naturals, Integers, Sequences, FiniteSets, TLC

(* ------------------------------ bounds --------------------------------- *)
MaxBudget == 2      \* largest max_steps a request asks for
MaxSubTasks == 2    \* largest decomposition the planner returns
MaxFaults == 3      \* faults injected into one call (403s, model errors)

(* ------------------------- program constants --------------------------- *)
max_retries == 3    \* _request_with_retry(max_retries: int = 3)

AgentPhase ==
  {"idle", "planning", "executing", "searching", "scraping", "expanding",
   "critiquing", "synthesizing", "recovering", "completed", "failed"}

Terminal == {"completed", "failed"}

Items == {"a"}                         \* source ids the platforms hold
\* the items one search returns
ResultPages == {<<>>} \cup {<<i>> : i \in Items}
Scores == {2, 9}                       \* credibility in tenths, within [0, 10]
RawKeywords == {"y", "Y", "z"}         \* keywords as they appear in item text

\* case folding and whitespace normalisation of a keyword
Normalize(k) == IF k = "Y" THEN "y" ELSE k

\* classified error kinds (section 4.5 / error table)
ErrorKinds ==
  {"rate_limited", "timeout", "blocked", "challenge", "network", "unclassified"}
\* what a model-routed call fails with (429, request timeout, network fault)
ModelErrorKinds == {"rate_limited", "timeout", "network"}
\* what a platform request raises past _request_with_retry (HTTP 429, access
\* denied, verification page, any other status)
CrawlErrorKinds == {"rate_limited", "blocked", "challenge", "unclassified"}

VARIABLES
  \* AgentState
  current_phase, thought_chain, discovered_keywords, pending_searches,
  collected_data, credibility_scores, total_tokens, error_count,
  max_steps, current_step,
  \* control state of run and of the helper it is iterating
  pc, mode, sub_tasks, attempt, req_attempt, last_kind, interrupted,
  exc, error_kind, faults, faulted,
  \* the model tier selected for the model call in progress
  routing,
  \* the event stream written by the SSE response
  stream,
  \* the client (AgentService + App)
  aborted, client_pos, logs, n_complete, n_error, client_done,
  \* history: a tool call was rate limited max_retries times in a row
  rl_exhausted,
  \* the AgentState of a second call of run on the same orchestrator
  peer,
  \* the read loop of executeWithStream over one response body
  body, chunks, buffer, dispatched, reader,
  \* App (React state) and the AgentService instance it uses
  isProcessing, useMockMode, connectionStatus, checks, abortController,
  exec, req, signal, lines_read, fallback, app_logs, late, net_failed

agent == <<current_phase, thought_chain, discovered_keywords, pending_searches,
           collected_data, credibility_scores, total_tokens, error_count,
           max_steps, current_step>>
control == <<pc, mode, sub_tasks, attempt, req_attempt, last_kind, interrupted,
             exc, error_kind, faults, faulted, rl_exhausted, routing>>
client == <<aborted, client_pos, logs, n_complete, n_error, client_done>>
reading == <<body, chunks, buffer, dispatched, reader>>
service == <<abortController, req, signal, lines_read, late, net_failed>>
app == <<isProcessing, useMockMode, connectionStatus, checks, exec, fallback,
         app_logs>>
front == <<reading, service, app>>
vars == <<agent, control, stream, client, peer, front>>

(* ------------------------------ helpers -------------------------------- *)
IsPrefix(s, t) == Len(s) <= Len(t) /\ SubSeq(t, 1, Len(s)) = s

RECURSIVE CountIf(_, _)
CountIf(s, phase) ==
  IF s = <<>> THEN 0
  ELSE (IF Head(s).phase = phase THEN 1 ELSE 0) + CountIf(Tail(s), phase)

\* ThoughtStep: step_id is derived from the task id and the sequence number
ThoughtStep(n, phase) == [seq |-> n, phase |-> phase]

\* faulty variant: the helper keeps only its own step
EmitOverwrite(chain, phase) == <<ThoughtStep(1, phase)>>

\* a helper creates a step and appends it to state.thought_chain
Emit(chain, phase) == Append(chain, ThoughtStep(Len(chain) + 1, phase))

\* event: thought / data: {"step_id": ..., "phase": ..., ...}
ThoughtEvent(step) ==
  [type |-> "thought", seq |-> step.seq, phase |-> step.phase,
   status |-> "none", kind |-> "none"]
\* event: complete / data: {"task_id", "intelligence_count", "total_tokens"}
\* (the data object carries no status field)
CompleteEvent ==
  [type |-> "complete", seq |-> 0, phase |-> "completed",
   status |-> "none", kind |-> "none"]
\* "failed" (task id, error kind, message)
FailedEvent(kind) ==
  [type |-> "failed", seq |-> 0, phase |-> "failed",
   status |-> "none", kind |-> kind]

IsTerminalEvent(e) == e.type \in {"complete", "failed"}

RECURSIVE Thoughts(_)
Thoughts(s) ==
  IF s = <<>> THEN <<>>
  ELSE IF Head(s).type = "thought"
       THEN <<ThoughtStep(Head(s).seq, Head(s).phase)>> \o Thoughts(Tail(s))
       ELSE Thoughts(Tail(s))

RECURSIVE TerminalCount(_)
TerminalCount(s) ==
  IF s = <<>> THEN 0
  ELSE (IF IsTerminalEvent(Head(s)) THEN 1 ELSE 0) + TerminalCount(Tail(s))

\* every step of the chain has been yielded by run
Settled == Len(Thoughts(stream)) = Len(thought_chain)

\* faulty variant: every keyword found is queued
RECURSIVE EnqueueAll(_, _, _)
EnqueueAll(found, seen, queue) ==
  IF found = <<>> THEN <<seen, queue>>
  ELSE EnqueueAll(Tail(found), seen \cup {Normalize(Head(found))},
                  Append(queue, Normalize(Head(found))))

\* search/expand: scan for follow-up keywords, enqueue those neither seen
\* nor queued (discovered_keywords holds every keyword ever enqueued)
RECURSIVE Enqueue(_, _, _)
Enqueue(found, seen, queue) ==
  IF found = <<>> THEN <<seen, queue>>
  ELSE LET k == Normalize(Head(found)) IN
       IF k \in seen
       THEN Enqueue(Tail(found), seen, queue)
       ELSE Enqueue(Tail(found), seen \cup {k}, Append(queue, k))

\* what one search can discover: nothing, one keyword, two new keywords, or
\* the same keyword twice in different spellings
FoundKeywords ==
  {<<>>} \cup {<<k>> : k \in RawKeywords} \cup {<<"z", "y">>, <<"Y", "y">>}

(* ----------------------------- model router ---------------------------- *)
\* light_tasks / heavy_tasks
light_tasks == {"filter", "classify", "extract_keywords", "simple_qa"}
heavy_tasks == {"critical_review", "deep_analysis", "synthesis"}

\* if len(content) > 5000
LengthThreshold == 5000

\* the lengths of the content handed to the router
ContentLengths == {LengthThreshold, LengthThreshold + 1}

\* the task name each model-routed stage asks for
StageTask(p) ==
  CASE p = "plan"     -> "classify"
    [] p = "critique" -> "critical_review"
    [] p = "synth"    -> "synthesis"

\* if len(content) > 5000: use_heavy_model() else: use_light_model()
SelectTier(task, length) ==
  IF length > LengthThreshold THEN "heavy" ELSE "light"

\* one routed call: what was asked and what was selected
Route(task, length) ==
  [task |-> task, len |-> length, tier |-> SelectTier(task, length)]

\* no model call is in progress
NoRouting == [task |-> "none", len |-> 0, tier |-> "none"]

(* ---------------------------- construction ----------------------------- *)
\* no second call of run has been made
NoTask ==
  [current_phase |-> "none", thought_chain |-> <<>>, pending_searches |-> <<>>,
   error_count |-> 0, max_steps |-> 0, current_step |-> 0]

\* AgentState(task_id=generate_task_id(), original_command=command,
\*            current_phase=AgentPhase.PLANNING) with the defaults of the class
NewState(budget) ==
  [current_phase |-> "planning", thought_chain |-> <<>>,
   pending_searches |-> <<>>, error_count |-> 0, max_steps |-> budget,
   current_step |-> 0]

\* state = AgentState(task_id=..., original_command=command,
\*                    current_phase=AgentPhase.PLANNING)
InitialPhase == "planning"

(* ------------------------------ front end ------------------------------ *)
\* bounds of the front-end model: commands the user submits, data lines read
\* from one response, periodic health checks, bytes of one response body
MaxCommands == 2
MaxLines == 1
MaxChecks == 2
MaxBytes == 4

Commands == 1..MaxCommands

\* `private abortController: AbortController | null = null`
NoController == 0

\* no mock execution started by onError is running
NoFallback == [gen |-> 0, timer |-> 0]

\* App after its first render and the mount effect (checkConnection has set
\* 'checking' and awaits healthCheck); the AgentService singleton as
\* constructed; no response is being read
FrontInit ==
  /\ isProcessing = FALSE
  /\ useMockMode = FALSE
  /\ connectionStatus = "checking"
  /\ checks = 1
  /\ abortController = NoController
  /\ exec = [c \in Commands |-> "idle"]
  /\ req = [c \in Commands |-> "none"]
  /\ signal = {}
  /\ lines_read = [c \in Commands |-> 0]
  /\ fallback = [c \in Commands |-> NoFallback]
  /\ app_logs = <<>>
  /\ late = {}
  /\ net_failed = FALSE
  /\ body = <<>>
  /\ chunks = <<>>
  /\ buffer = <<>>
  /\ dispatched = <<>>
  /\ reader = "none"

Init ==
  /\ current_phase = InitialPhase
  /\ thought_chain = <<>>
  /\ discovered_keywords = {}
  /\ pending_searches = <<>>
  /\ collected_data = <<>>
  /\ credibility_scores = [i \in {} |-> 0]
  /\ total_tokens = 0
  /\ error_count = 0
  /\ max_steps \in 1..MaxBudget
  /\ current_step = 0
  /\ pc = "plan"
  /\ mode = "call"
  /\ sub_tasks = 0
  /\ attempt = 0
  /\ req_attempt = 0
  /\ last_kind = "none"
  /\ interrupted = "none"
  /\ exc = "none"
  /\ error_kind = "none"
  /\ faults = 0
  /\ faulted = FALSE
  /\ stream = <<>>
  /\ aborted = FALSE
  /\ client_pos = 0
  /\ logs = <<>>
  /\ n_complete = 0
  /\ n_error = 0
  /\ client_done = FALSE
  /\ rl_exhausted = FALSE
  /\ peer = NoTask
  /\ \E length \in ContentLengths : routing = Route(StageTask("plan"), length)
  /\ FrontInit

(* --------------------------- recovery policy --------------------------- *)
\* attempts allowed for one call, per classified error kind; an error of no
\* known kind is handled as capability-blocked
AttemptCap(kind) ==
  CASE kind = "rate_limited" -> 3
    [] kind = "timeout"      -> 3
    [] kind = "network"      -> 3
    [] kind = "blocked"      -> 2
    [] kind = "challenge"    -> 2
    [] OTHER                 -> 2

\* faulty variant: the first fault of a call is already fatal
AlwaysAbort(kind, n) == "abort"

\* faulty variant: the verdict depends on what the task went through before
VerdictByHistory(kind, n) ==
  IF error_count > 0 THEN "abort" ELSE "retry_same"

\* RetryManager.STRATEGIES: the strategies registered per error type
STRATEGIES ==
  ("rate_limited" :> <<"ExponentialBackoffStrategy">>) @@
  ("blocked" :> <<"SwitchProxyStrategy", "FallbackCrawlerStrategy">>)

\* RetryManager.get_strategy:
\*   self.STRATEGIES.get(error_type, [ExponentialBackoffStrategy()])[0]
get_strategy(error_type) ==
  IF error_type \in DOMAIN STRATEGIES
  THEN STRATEGIES[error_type][1]
  ELSE "ExponentialBackoffStrategy"

\* a backoff strategy repeats the same call; a proxy switch or a fallback
\* crawler repeats it with another resource
StrategyVerdict(strategy) ==
  IF strategy = "ExponentialBackoffStrategy" THEN "retry_same"
  ELSE "retry_with_substitution"

\* the verdict after the n-th consecutive failed attempt of one call
Verdict(kind, n) ==
  IF n >= AttemptCap(kind) THEN "abort"
  ELSE StrategyVerdict(get_strategy(kind))

(* ------------------------- control flow of run ------------------------- *)
\* faulty variant: an off-by-one loop condition
LoopGuardInclusive(step, budget) == step <= budget

\* while state.current_step < state.max_steps:
LoopGuard(step, budget) == step < budget

\* state.current_step += 1
NextStep(step) == step + 1

\* faulty variant: the handler falls through into the rest of the pipeline
FallThrough == "critique"

\* except Exception as e: the handler of the try block
ExceptTarget == "except"

\* nothing follows the except clause: run ends after _recover
AfterRecover == "end"

\* the planned sub-tasks alternate between a platform search and a detail
\* fetch; r sub-tasks are left once this one is taken
SubTaskPhase(r) == IF r % 2 = 0 THEN "searching" ELSE "scraping"

\* the phase a helper puts the task in
StagePhases(p) ==
  CASE p = "plan"     -> {"planning"}
    [] p = "exec"     -> {"executing"}
    [] p = "search"   -> {SubTaskPhase(sub_tasks)}
    [] p = "expand"   -> {"expanding"}
    [] p = "critique" -> {"critiquing"}
    [] p = "synth"    -> {"synthesizing"}

\* a helper starts: the task enters the helper's phase
Enter ==
  /\ pc \in {"exec", "search", "expand", "critique", "synth"}
  /\ mode = "enter"
  /\ Settled
  /\ \E p \in StagePhases(pc) : current_phase' = p
  /\ mode' = "call"
  /\ IF pc \in {"critique", "synth"}
     THEN \E length \in ContentLengths :
            routing' = Route(StageTask(pc), length)
     ELSE UNCHANGED routing
  /\ UNCHANGED <<thought_chain, discovered_keywords, pending_searches,
                 collected_data, credibility_scores, total_tokens, error_count,
                 max_steps, current_step>>
  /\ UNCHANGED <<pc, sub_tasks, attempt, req_attempt, last_kind, interrupted,
                 exc, error_kind, faults, faulted, rl_exhausted>>
  /\ UNCHANGED <<stream, client, peer, front>>

\* fault injection: the environment makes one call of a run fail, at most
\* MaxFaults times
InFaultyCall == attempt > 0 \/ req_attempt > 0
CanFault == faults < MaxFaults /\ (InFaultyCall \/ ~faulted)

\* a call failed with a classified error: the task enters recovering
ClassifiedError(kind, injected) ==
  /\ current_phase' = "recovering"
  /\ interrupted' = current_phase
  /\ attempt' = attempt + 1
  /\ last_kind' = kind
  /\ thought_chain' = Emit(thought_chain, "recovering")
  /\ faults' = faults + injected
  /\ faulted' = (faulted \/ injected > 0)
  /\ mode' = "resolve"
  /\ req_attempt' = 0
  /\ UNCHANGED <<discovered_keywords, pending_searches, collected_data,
                 credibility_scores, total_tokens, error_count, max_steps,
                 current_step>>
  /\ UNCHANGED <<pc, sub_tasks, exc, error_kind, rl_exhausted, routing>>
  /\ UNCHANGED <<stream, client, peer, front>>

\* a model-routed call (plan, critique, synthesize) fails
ModelFault ==
  /\ pc \in {"plan", "critique", "synth"}
  /\ mode = "call"
  /\ Settled
  /\ CanFault
  /\ \E kind \in ModelErrorKinds : ClassifiedError(kind, 1)

\* the Recovery Policy's verdict: resume the interrupted phase, or raise
Resolve ==
  /\ mode = "resolve"
  /\ pc \notin {"closed", "done"}
  /\ Settled
  /\ \/ /\ Verdict(last_kind, attempt) # "abort"
        /\ current_phase' = interrupted
        /\ error_count' = error_count + 1
        /\ mode' = "call"
        /\ UNCHANGED <<pc, exc, attempt, faults, routing>>
     \/ /\ Verdict(last_kind, attempt) = "abort"
        /\ exc' = last_kind
        /\ pc' = ExceptTarget
        /\ mode' = "call"
        /\ attempt' = 0
        /\ faults' = 0
        /\ routing' = NoRouting
        /\ UNCHANGED <<current_phase, error_count>>
  /\ last_kind' = "none"
  /\ interrupted' = "none"
  /\ UNCHANGED <<thought_chain, discovered_keywords, pending_searches,
                 collected_data, credibility_scores, total_tokens,
                 max_steps, current_step>>
  /\ UNCHANGED <<sub_tasks, req_attempt, error_kind, faulted, rl_exhausted>>
  /\ UNCHANGED <<stream, client, peer, front>>

\* async for step in self._plan(state, command)
Plan ==
  /\ pc = "plan"
  /\ mode = "call"
  /\ Settled
  /\ \E n \in 0..MaxSubTasks :
       \/ /\ n > 0
          /\ sub_tasks' = n
          /\ total_tokens' = total_tokens + 1
          /\ thought_chain' = Emit(thought_chain, current_phase)
          /\ pc' = "loop"
          /\ UNCHANGED exc
       \/ /\ n = 0                 \* PlanningError: no retry
          /\ exc' = "planning"
          /\ pc' = ExceptTarget
          /\ UNCHANGED <<sub_tasks, total_tokens, thought_chain>>
  /\ attempt' = 0
  /\ faults' = 0
  /\ routing' = NoRouting
  /\ UNCHANGED <<current_phase, discovered_keywords, pending_searches,
                 collected_data, credibility_scores, error_count, max_steps,
                 current_step>>
  /\ UNCHANGED <<mode, req_attempt, last_kind, interrupted, error_kind,
                 faulted, rl_exhausted>>
  /\ UNCHANGED <<stream, client, peer, front>>

\* while state.current_step < state.max_steps: state.current_step += 1
LoopHead ==
  /\ pc = "loop"
  /\ Settled
  /\ IF LoopGuard(current_step, max_steps)
     THEN /\ current_step' = NextStep(current_step)
          /\ pc' = "exec"
     ELSE /\ pc' = "critique"
          /\ UNCHANGED current_step
  /\ mode' = "enter"
  /\ UNCHANGED <<current_phase, thought_chain, discovered_keywords,
                 pending_searches, collected_data, credibility_scores,
                 total_tokens, error_count, max_steps>>
  /\ UNCHANGED <<sub_tasks, attempt, req_attempt, last_kind, interrupted,
                 exc, error_kind, faults, faulted, rl_exhausted, routing>>
  /\ UNCHANGED <<stream, client, peer, front>>

\* async for step in self._execute_step(state): the next planned sub-task
ExecuteStep ==
  /\ pc = "exec"
  /\ mode = "call"
  /\ Settled
  /\ thought_chain' = Emit(thought_chain, current_phase)
  /\ IF sub_tasks > 0
     THEN /\ sub_tasks' = sub_tasks - 1
          /\ pc' = "search"
          /\ mode' = "enter"
     ELSE /\ pc' = "branch"
          /\ UNCHANGED <<sub_tasks, mode>>
  /\ UNCHANGED <<current_phase, discovered_keywords, pending_searches,
                 collected_data, credibility_scores, total_tokens, error_count,
                 max_steps, current_step>>
  /\ UNCHANGED <<attempt, req_attempt, last_kind, interrupted, exc, error_kind,
                 faults, faulted, rl_exhausted, routing>>
  /\ UNCHANGED <<stream, client, peer, front>>

\* the source ids of the collected items
Keys(data) == {data[i] : i \in 1..Len(data)}

\* faulty variant: every returned item is appended
MergeAppend(data, items) == data \o items

\* the items of a result page are added to collected_data; an item whose
\* source id is already collected is not added again
RECURSIVE Merge(_, _)
Merge(data, items) ==
  IF items = <<>> THEN data
  ELSE Merge(IF Head(items) \in Keys(data) THEN data
             ELSE Append(data, Head(items)),
             Tail(items))

\* a search or an expansion returned: merge the items, enqueue the keywords
SearchDone(items, found) ==
  LET q == Enqueue(found, discovered_keywords, pending_searches) IN
  /\ collected_data' = Merge(collected_data, items)
  /\ discovered_keywords' = q[1]
  /\ pending_searches' = q[2]
  /\ total_tokens' = total_tokens + 1
  /\ thought_chain' = Emit(thought_chain, current_phase)
  /\ current_phase' = IF pc = "search" THEN "executing" ELSE current_phase
  /\ pc' = IF pc = "search" THEN "branch" ELSE "loop"
  /\ attempt' = 0
  /\ req_attempt' = 0
  /\ faults' = 0
  /\ UNCHANGED <<credibility_scores, error_count, max_steps, current_step>>
  /\ UNCHANGED <<mode, sub_tasks, last_kind, interrupted, exc, error_kind>>
  /\ UNCHANGED <<stream, client, peer, front>>

\* faulty variant: an empty result page is raised as an error
EmptyIsError(items) == IF items = <<>> THEN "error" ELSE "result"

\* WeChatCrawler.search: `if not items: break`, then the CrawlResult is
\* returned whatever it holds
SearchOutcome(items) == "result"

\* BaseCrawler._request_with_retry: one pass of `for attempt in range(max_retries)`
RequestAttempt ==
  /\ pc \in {"search", "expand"}
  /\ mode = "call"
  /\ Settled
  /\ req_attempt < max_retries
  /\ \/ \* response.status == 200: return await response.json()
        /\ \E items \in ResultPages : \E found \in FoundKeywords :
             IF SearchOutcome(items) = "result"
             THEN /\ SearchDone(items, found)
                  /\ UNCHANGED <<faulted, rl_exhausted, routing>>
             ELSE ClassifiedError("unclassified", 0)
     \/ \* response.status == 403: raise RateLimitedException, caught: continue
        /\ CanFault
        /\ req_attempt' = req_attempt + 1
        /\ faults' = faults + 1
        /\ faulted' = TRUE
        /\ rl_exhausted' = (rl_exhausted \/ req_attempt + 1 = max_retries)
        /\ UNCHANGED agent
        /\ UNCHANGED <<pc, mode, sub_tasks, attempt, last_kind, interrupted,
                       exc, error_kind, routing>>
        /\ UNCHANGED <<stream, client, peer, front>>
     \/ \* any other status or fault: the exception leaves the function
        /\ CanFault
        /\ \E kind \in CrawlErrorKinds : ClassifiedError(kind, 1)

\* BaseCrawler._request_with_retry: the for loop ends and the function falls
\* off its end (returns None); the caller either reads None as "no items" or
\* fails on it with an error of no known kind
RequestExhausted ==
  /\ pc \in {"search", "expand"}
  /\ mode = "call"
  /\ Settled
  /\ req_attempt = max_retries
  /\ \/ /\ SearchDone(<<>>, <<>>)
        /\ UNCHANGED <<faulted, rl_exhausted, routing>>
     \/ ClassifiedError("unclassified", 0)

\* faulty variant: the next keyword is read but left in the queue
BranchPeek ==
  /\ pc = "branch"
  /\ Settled
  /\ pc' = (IF pending_searches # <<>> THEN "expand" ELSE "critique")
  /\ mode' = "enter"
  /\ UNCHANGED agent
  /\ UNCHANGED <<sub_tasks, attempt, req_attempt, last_kind, interrupted,
                 exc, error_kind, faults, faulted, rl_exhausted, routing>>
  /\ UNCHANGED <<stream, client, peer, front>>

\* if state.pending_searches: keyword = pop(0); _expand_search  else: break
Branch ==
  /\ pc = "branch"
  /\ Settled
  /\ IF pending_searches # <<>>
     THEN /\ pending_searches' = Tail(pending_searches)
          /\ pc' = "expand"
     ELSE /\ pc' = "critique"
          /\ UNCHANGED pending_searches
  /\ mode' = "enter"
  /\ UNCHANGED <<current_phase, thought_chain, discovered_keywords,
                 collected_data, credibility_scores, total_tokens, error_count,
                 max_steps, current_step>>
  /\ UNCHANGED <<sub_tasks, attempt, req_attempt, last_kind, interrupted,
                 exc, error_kind, faults, faulted, rl_exhausted, routing>>
  /\ UNCHANGED <<stream, client, peer, front>>

\* faulty variant: critique scores nothing
ScoredNone(data) == {}

\* the items critique writes a credibility score for
Scored(data) == Keys(data)

\* async for step in self._critique(state): a score for every collected item
Critique ==
  /\ pc = "critique"
  /\ mode = "call"
  /\ Settled
  /\ \E f \in [Scored(collected_data) -> Scores] : credibility_scores' = f
  /\ total_tokens' = total_tokens + 1
  /\ thought_chain' = Emit(thought_chain, current_phase)
  /\ pc' = "synth"
  /\ mode' = "enter"
  /\ attempt' = 0
  /\ faults' = 0
  /\ UNCHANGED <<current_phase, discovered_keywords, pending_searches,
                 collected_data, error_count, max_steps, current_step>>
  /\ routing' = NoRouting
  /\ UNCHANGED <<sub_tasks, req_attempt, last_kind, interrupted, exc,
                 error_kind, faulted, rl_exhausted>>
  /\ UNCHANGED <<stream, client, peer, front>>

\* async for step in self._synthesize(state): summary produced and persisted
Synthesize ==
  /\ pc = "synth"
  /\ mode = "call"
  /\ Settled
  /\ total_tokens' = total_tokens + 1
  /\ thought_chain' = Emit(thought_chain, current_phase)
  /\ pc' = "finish"
  /\ attempt' = 0
  /\ faults' = 0
  /\ UNCHANGED <<current_phase, discovered_keywords, pending_searches,
                 collected_data, credibility_scores, error_count, max_steps,
                 current_step>>
  /\ routing' = NoRouting
  /\ UNCHANGED <<mode, sub_tasks, req_attempt, last_kind, interrupted, exc,
                 error_kind, faulted, rl_exhausted>>
  /\ UNCHANGED <<stream, client, peer, front>>

\* synthesizing -> completed
Finish ==
  /\ pc = "finish"
  /\ Settled
  /\ current_phase' = "completed"
  /\ thought_chain' = Emit(thought_chain, "completed")
  /\ pc' = "end"
  /\ UNCHANGED <<discovered_keywords, pending_searches, collected_data,
                 credibility_scores, total_tokens, error_count, max_steps,
                 current_step>>
  /\ UNCHANGED <<mode, sub_tasks, attempt, req_attempt, last_kind, interrupted,
                 exc, error_kind, faults, faulted, rl_exhausted, routing>>
  /\ UNCHANGED <<stream, client, peer, front>>

\* faulty variant: recovery starts from a fresh record
DiscardState(data) == <<>>

\* the record _recover works on: the live state object of the failed run
RecoverState(data) == data

\* async for step in self._recover(state, e)
Recover ==
  /\ pc = "except"
  /\ Settled
  /\ \/ /\ current_phase # "recovering"
        /\ current_phase' = "recovering"
        /\ interrupted' = current_phase
        /\ thought_chain' = Emit(thought_chain, "recovering")
        /\ UNCHANGED <<pc, error_kind, collected_data, credibility_scores>>
     \/ /\ current_phase = "recovering"
        /\ current_phase' = "failed"
        /\ error_kind' = exc
        /\ thought_chain' = Emit(thought_chain, "failed")
        /\ collected_data' = RecoverState(collected_data)
        /\ UNCHANGED credibility_scores
        /\ pc' = AfterRecover
        /\ UNCHANGED interrupted
  /\ UNCHANGED <<discovered_keywords, pending_searches, total_tokens,
                 error_count, max_steps, current_step>>
  /\ UNCHANGED <<mode, sub_tasks, attempt, req_attempt, last_kind, exc, faults,
                 faulted, rl_exhausted, routing>>
  /\ UNCHANGED <<stream, client, peer, front>>

\* faulty variant: the step goes out twice
YieldTwice ==
  /\ pc \notin {"closed", "done"}
  /\ ~Settled
  /\ LET e == ThoughtEvent(thought_chain[Len(Thoughts(stream)) + 1])
     IN stream' = stream \o <<e, e>>
  /\ UNCHANGED <<agent, control, client, peer, front>>

\* yield step: the step a helper produced goes out on the stream
YieldStep ==
  /\ pc \notin {"closed", "done"}
  /\ ~Settled
  /\ stream' = Append(stream,
                      ThoughtEvent(thought_chain[Len(Thoughts(stream)) + 1]))
  /\ UNCHANGED <<agent, control, client, peer, front>>

\* the generator is exhausted: the response ends with the terminal event
EndStream ==
  /\ pc = "end"
  /\ Settled
  /\ stream' = Append(stream, IF current_phase = "completed"
                              THEN CompleteEvent
                              ELSE FailedEvent(error_kind))
  /\ pc' = "done"
  /\ UNCHANGED agent
  /\ UNCHANGED <<mode, sub_tasks, attempt, req_attempt, last_kind, interrupted,
                 exc, error_kind, faults, faulted, rl_exhausted, routing>>
  /\ UNCHANGED <<client, peer, front>>

(* ------------------- the client: AgentService and App ------------------ *)
\* PHASE_TO_LEVEL, with LogLevel.INFO for a phase it does not list
PHASE_TO_LEVEL(phase) ==
  CASE phase = "idle"         -> "DEBUG"
    [] phase = "planning"     -> "INFO"
    [] phase = "executing"    -> "EXEC"
    [] phase = "searching"    -> "NET"
    [] phase = "scraping"     -> "NET"
    [] phase = "expanding"    -> "INFO"
    [] phase = "critiquing"   -> "WARN"
    [] phase = "synthesizing" -> "EXEC"
    [] phase = "recovering"   -> "WARN"
    [] phase = "completed"    -> "INFO"
    [] phase = "failed"       -> "ALERT"
    [] OTHER                  -> "INFO"

\* thoughtToLog: id = step_id, level from the phase
thoughtToLog(e) == [id |-> e.seq, level |-> PHASE_TO_LEVEL(e.phase)]

\* the fields of a parsed data line the dispatch looks at
HasStepId(e) == e.type = "thought"
HasTaskId(e) == e.type \in {"complete", "failed"}
HasError(e) == e.type = "failed"

\* if (parsed.step_id) onThought(thoughtToLog(parsed))
IsThoughtLine(e) == HasStepId(e)
\* else if (parsed.task_id && parsed.status === 'completed') onComplete(...)
IsCompleteLine(e) == ~HasStepId(e) /\ HasTaskId(e) /\ e.status = "completed"
\* else if (parsed.error) onError(...)
IsErrorLine(e) == ~HasStepId(e) /\ ~IsCompleteLine(e) /\ HasError(e)

RECURSIVE NewLogs(_)
NewLogs(lines) ==
  IF lines = <<>> THEN <<>>
  ELSE (IF IsThoughtLine(Head(lines)) THEN <<thoughtToLog(Head(lines))>>
        ELSE <<>>) \o NewLogs(Tail(lines))

\* executeWithStream: one reader.read() delivers some further data lines,
\* which are dispatched in order
ClientRead ==
  /\ ~aborted
  /\ ~client_done
  /\ \/ \E k \in 1..(Len(stream) - client_pos) :
          LET lines == SubSeq(stream, client_pos + 1, client_pos + k) IN
          /\ client_pos' = client_pos + k
          /\ logs' = logs \o NewLogs(lines)
          /\ n_complete' = n_complete + Len(SelectSeq(lines, IsCompleteLine))
          /\ n_error' = n_error + Len(SelectSeq(lines, IsErrorLine))
          /\ UNCHANGED client_done
     \/ \* done: the response body has ended
        /\ pc = "done"
        /\ client_pos = Len(stream)
        /\ client_done' = TRUE
        /\ UNCHANGED <<client_pos, logs, n_complete, n_error>>
  /\ UNCHANGED <<agent, control, stream, aborted, peer, front>>

\* handleAbort -> AgentService.abort(): the pending read rejects with an
\* AbortError, executeWithStream logs it and returns without a callback
Abort ==
  /\ ~aborted
  /\ ~client_done
  /\ aborted' = TRUE
  /\ UNCHANGED <<agent, control, stream, peer, front>>
  /\ UNCHANGED <<client_pos, logs, n_complete, n_error, client_done>>

\* the connection is gone: the generator is closed where it is suspended;
\* run has no handler for that (except Exception does not catch it)
ServerClose ==
  /\ aborted
  /\ pc \notin {"closed", "done"}
  /\ pc' = "closed"
  /\ UNCHANGED agent
  /\ UNCHANGED <<mode, sub_tasks, attempt, req_attempt, last_kind, interrupted,
                 exc, error_kind, faults, faulted, rl_exhausted, routing>>
  /\ UNCHANGED <<stream, client, peer, front>>

\* faulty variant: the state object is kept on the orchestrator, so a second
\* call of run constructs it over the state of the first
RunShared ==
  /\ peer = NoTask
  /\ pc \notin {"closed", "done"}
  /\ peer' = NewState(max_steps)
  /\ current_phase' = peer'.current_phase
  /\ thought_chain' = peer'.thought_chain
  /\ pending_searches' = peer'.pending_searches
  /\ error_count' = peer'.error_count
  /\ current_step' = peer'.current_step
  /\ UNCHANGED <<discovered_keywords, collected_data, credibility_scores,
                 total_tokens, max_steps>>
  /\ UNCHANGED <<control, stream, client, front>>

\* a second call of run: `state = AgentState(...)` is a local of the call
RunPeer ==
  /\ peer = NoTask
  /\ pc \notin {"closed", "done"}
  /\ peer' = NewState(max_steps)
  /\ UNCHANGED <<agent, control, stream, client, front>>

\* the second call at its loop head: state.current_step += 1, then the step
\* of _execute_step
PeerStep ==
  /\ peer # NoTask
  /\ LoopGuard(peer.current_step, peer.max_steps)
  /\ peer' = [peer EXCEPT
                !.current_step = NextStep(@),
                !.current_phase = "executing",
                !.thought_chain = Emit(@, "executing")]
  /\ UNCHANGED <<agent, control, stream, client, front>>

ServerNext ==
  \/ Enter \/ ModelFault \/ Resolve \/ Plan \/ LoopHead \/ ExecuteStep
  \/ RequestAttempt \/ RequestExhausted \/ Branch \/ Critique \/ Synthesize
  \/ Finish \/ Recover \/ YieldStep \/ EndStream

Next == ServerNext \/ ClientRead \/ Abort \/ ServerClose

Spec == Init /\ [][Next]_vars

\* two calls of run on one orchestrator, their steps interleaved
PairNext == ServerNext \/ RunPeer \/ PeerStep
PairSpec == Init /\ [][PairNext]_vars

\* the event loop keeps running the coroutine and the reader; every call
\* resolves.  Whether the user aborts, and whether the server sees the
\* connection go, is not forced.
FairSpec == Spec /\ WF_vars(ServerNext) /\ WF_vars(ClientRead)

(* -------------------- executeWithStream: the read loop ----------------- *)
\* the characters of a response body: "D" stands for the prefix `data:`,
\* "x" for a payload character, " " for white space, "nl" for '\n'
Alphabet == {"D", "x", " ", "nl"}

\* the response bodies of at most MaxBytes characters
Bodies == UNION {[1..n -> Alphabet] : n \in 0..MaxBytes}

\* every way reader.read() can deliver a body as a sequence of non-empty
\* chunks
RECURSIVE Chunkings(_)
Chunkings(s) ==
  IF s = <<>> THEN {<<>>}
  ELSE UNION {{<<SubSeq(s, 1, k)>> \o r :
                 r \in Chunkings(SubSeq(s, k + 1, Len(s)))} : k \in 1..Len(s)}

\* String.prototype.split('\n'): the pieces between the line feeds, the
\* last piece being what follows the last line feed (possibly empty)
RECURSIVE split(_)
split(s) ==
  IF \A i \in 1..Len(s) : s[i] # "nl" THEN <<s>>
  ELSE LET k == CHOOSE i \in 1..Len(s) :
                  s[i] = "nl" /\ \A j \in 1..(i - 1) : s[j] # "nl"
       IN <<SubSeq(s, 1, k - 1)>> \o split(SubSeq(s, k + 1, Len(s)))

\* String.prototype.trim()
RECURSIVE trim(_)
trim(s) ==
  IF s = <<>> THEN s
  ELSE IF Head(s) = " " THEN trim(Tail(s))
  ELSE IF s[Len(s)] = " " THEN trim(SubSeq(s, 1, Len(s) - 1))
  ELSE s

\* the body of `for (const line of lines)`: a line that starts with `data:`
\* and has a payload after slice(5).trim() is parsed and dispatched, every
\* other line is skipped
RECURSIVE Dispatch(_)
Dispatch(lines) ==
  IF lines = <<>> THEN <<>>
  ELSE LET line == Head(lines)
           data == IF line # <<>> /\ Head(line) = "D"
                   THEN trim(Tail(line)) ELSE <<>>
       IN (IF data # <<>> THEN <<data>> ELSE <<>>) \o Dispatch(Tail(lines))

\* fetch resolves with a body, getReader()
Respond ==
  /\ reader = "none"
  /\ \E b \in Bodies : \E c \in Chunkings(b) :
       /\ body' = b
       /\ chunks' = c
  /\ reader' = "open"
  /\ buffer' = <<>>
  /\ dispatched' = <<>>
  /\ UNCHANGED <<agent, control, stream, client, peer, service, app>>

\* reader.read() resolves with a chunk: buffer += decode(value),
\* lines = buffer.split('\n'), buffer = lines.pop() || '', the lines are
\* dispatched
ReadValue ==
  /\ reader = "open"
  /\ chunks # <<>>
  /\ LET lines == split(buffer \o Head(chunks))
     IN /\ buffer' = lines[Len(lines)]
        /\ dispatched' = dispatched \o Dispatch(SubSeq(lines, 1, Len(lines) - 1))
  /\ chunks' = Tail(chunks)
  /\ UNCHANGED <<body, reader>>
  /\ UNCHANGED <<agent, control, stream, client, peer, service, app>>

\* reader.read() resolves with done: `if (done) break`, the function returns
ReadDone ==
  /\ reader = "open"
  /\ chunks = <<>>
  /\ reader' = "done"
  /\ UNCHANGED <<body, chunks, buffer, dispatched>>
  /\ UNCHANGED <<agent, control, stream, client, peer, service, app>>

\* one response body read to its end, for every body and every chunking
ReadNext == Respond \/ ReadValue \/ ReadDone
ReadSpec == Init /\ [][ReadNext]_vars

(* ----------------------- App and AgentService --------------------------- *)
\* a log entry: the command whose execution produced it (0: none) and what
\* it reports
Log(c, kind) == [cmd |-> c, kind |-> kind]

\* the commands submitted so far; the next one
Started == {c \in Commands : exec[c] # "idle"}
NextCommand == Cardinality(Started) + 1

\* AgentService.abort(): `if (this.abortController) { abort(); = null }`
abort(ctrl, sig) == IF ctrl # NoController THEN sig \cup {ctrl} ELSE sig

\* faulty variant: a new request leaves the previous one running
KeepExisting(ctrl, sig) == sig

\* executeWithStream: `// Cancel any existing request  this.abort()`
CancelExisting(ctrl, sig) == abort(ctrl, sig)

\* a request that was aborted or is no longer the one the service holds
Stale(c) == c \in signal \/ c # abortController

\* the callbacks made for a stale request, with one more
Invoked(c, callback) == IF Stale(c) THEN late \cup {<<c, callback>>} ELSE late

\* faulty variant: the catch block reports every error
CaughtAll(name) == "onError"

\* the catch block of executeWithStream: an AbortError is logged to the
\* console and the function returns, any other error goes to onError
Caught(name) == IF name = "AbortError" THEN "return" ELSE "onError"

\* how the promise of executeWithStream settles when its try block threw:
\* both branches of the catch block return, nothing is thrown again
StreamResult(name) == "resolved"

\* handleExecute after its await: setIsProcessing(false)
ExecuteReturns(c) ==
  /\ exec' = [exec EXCEPT ![c] = "done"]
  /\ isProcessing' = FALSE

\* the try block of executeWithStream threw an error called `name`: the
\* catch block, then handleRealExecution after `await executeWithStream`
\* (its own catch block when the promise rejected), then handleExecute
Thrown(c, name) ==
  LET reported == Caught(name) = "onError"
      result == StreamResult(name)
      \* onError of App: addLog(ALERT), handleMockExecution(command) unawaited
      logs1 == IF reported THEN Append(app_logs, Log(c, "alert")) ELSE app_logs
  IN /\ req' = [req EXCEPT ![c] = result]
     /\ fallback' = IF reported THEN [fallback EXCEPT ![c].gen = @ + 1]
                    ELSE fallback
     /\ late' = IF reported THEN Invoked(c, "onError") ELSE late
     /\ IF result = "rejected"
        THEN /\ app_logs' = Append(logs1, Log(c, "alert"))
             /\ useMockMode' = TRUE
             /\ exec' = [exec EXCEPT ![c] = "mock_gen"]
             /\ UNCHANGED isProcessing
        ELSE /\ app_logs' = logs1
             /\ ExecuteReturns(c)
             /\ UNCHANGED useMockMode

\* setInterval(checkConnection, 30000): setConnectionStatus('checking'),
\* await healthCheck()
HealthTick ==
  /\ connectionStatus # "checking"
  /\ checks < MaxChecks
  /\ connectionStatus' = "checking"
  /\ checks' = checks + 1
  /\ UNCHANGED <<isProcessing, useMockMode, exec, fallback, app_logs>>
  /\ UNCHANGED <<agent, control, stream, client, peer, reading, service>>

\* checkConnection after healthCheck resolved
checkConnection ==
  /\ connectionStatus = "checking"
  /\ \E isHealthy \in BOOLEAN :
       /\ connectionStatus' = (IF isHealthy THEN "connected" ELSE "disconnected")
       /\ useMockMode' = ~isHealthy
  /\ app_logs' = Append(app_logs, Log(0, "health"))
  /\ net_failed' = FALSE
  /\ UNCHANGED <<isProcessing, checks, exec, fallback>>
  /\ UNCHANGED <<abortController, req, signal, lines_read, late>>
  /\ UNCHANGED <<agent, control, stream, client, peer, reading>>

\* handleExecute up to its first await
Execute ==
  /\ NextCommand \in Commands
  /\ LET c == NextCommand
         echo == Append(app_logs, Log(c, "echo"))
     IN /\ isProcessing' = TRUE
        /\ IF useMockMode
           THEN \* handleMockExecution: await generateReasoningLogs
                /\ exec' = [exec EXCEPT ![c] = "mock_gen"]
                /\ app_logs' = echo
                /\ UNCHANGED <<abortController, req, signal>>
           ELSE \* handleRealExecution: addLog, executeWithStream up to fetch
                /\ exec' = [exec EXCEPT ![c] = "real"]
                /\ app_logs' = Append(echo, Log(c, "connect"))
                /\ signal' = CancelExisting(abortController, signal)
                /\ abortController' = c
                /\ req' = [req EXCEPT ![c] = "fetch"]
  /\ UNCHANGED <<useMockMode, connectionStatus, checks, fallback>>
  /\ UNCHANGED <<lines_read, late, net_failed>>
  /\ UNCHANGED <<agent, control, stream, client, peer, reading>>

\* CommandBar.handleSubmit / a quick action (both disabled while
\* isProcessing) -> handleExecute
handleExecute == ~isProcessing /\ Execute

\* handleAbort
Cancel ==
  /\ signal' = abort(abortController, signal)
  /\ abortController' = NoController
  /\ app_logs' = Append(app_logs, Log(0, "cancel"))
  /\ isProcessing' = FALSE
  /\ UNCHANGED <<useMockMode, connectionStatus, checks, exec, fallback>>
  /\ UNCHANGED <<req, lines_read, late, net_failed>>
  /\ UNCHANGED <<agent, control, stream, client, peer, reading>>

\* the ABORT button (shown while isProcessing) -> handleAbort
handleAbort == isProcessing /\ Cancel

\* `await fetch(...)` settles for a request that was not aborted: a response
\* with a body, a response that is not ok or has no body, or no connection
FetchSettles ==
  \E c \in Commands :
    /\ req[c] = "fetch"
    /\ c \notin signal
    /\ \/ /\ req' = [req EXCEPT ![c] = "read"]
          /\ UNCHANGED <<isProcessing, useMockMode, exec, fallback, app_logs>>
          /\ UNCHANGED <<late, net_failed>>
       \/ /\ Thrown(c, "Error")
          /\ UNCHANGED net_failed
       \/ /\ Thrown(c, "TypeError")
          /\ net_failed' = TRUE
    /\ UNCHANGED <<connectionStatus, checks, abortController, signal, lines_read>>
    /\ UNCHANGED <<agent, control, stream, client, peer, reading>>

\* `await reader.read()` settles for a request that was not aborted: with a
\* data line (a thought, the completed result or an error), with done, or
\* with a failure of the connection
ReadSettles ==
  \E c \in Commands :
    /\ req[c] = "read"
    /\ c \notin signal
    /\ \/ /\ lines_read[c] < MaxLines
          /\ lines_read' = [lines_read EXCEPT ![c] = @ + 1]
          /\ \/ /\ app_logs' = Append(app_logs, Log(c, "thought"))
                /\ late' = Invoked(c, "onThought")
                /\ UNCHANGED fallback
             \/ /\ app_logs' = Append(app_logs, Log(c, "complete"))
                /\ late' = Invoked(c, "onComplete")
                /\ UNCHANGED fallback
             \/ /\ app_logs' = Append(app_logs, Log(c, "alert"))
                /\ late' = Invoked(c, "onError")
                /\ fallback' = [fallback EXCEPT ![c].gen = @ + 1]
          /\ UNCHANGED <<isProcessing, useMockMode, exec, req, net_failed>>
       \/ /\ req' = [req EXCEPT ![c] = "resolved"]
          /\ ExecuteReturns(c)
          /\ UNCHANGED <<useMockMode, fallback, app_logs, lines_read, late,
                         net_failed>>
       \/ /\ Thrown(c, "TypeError")
          /\ net_failed' = TRUE
          /\ UNCHANGED lines_read
    /\ UNCHANGED <<connectionStatus, checks, abortController, signal>>
    /\ UNCHANGED <<agent, control, stream, client, peer, reading>>

\* the pending fetch or read of an aborted request rejects with AbortError
AbortedSettles ==
  \E c \in Commands :
    /\ req[c] \in {"fetch", "read"}
    /\ c \in signal
    /\ Thrown(c, "AbortError")
    /\ UNCHANGED <<connectionStatus, checks, abortController, signal,
                   lines_read, net_failed>>
    /\ UNCHANGED <<agent, control, stream, client, peer, reading>>

\* handleMockExecution awaited by handleExecute: generateReasoningLogs
\* resolved (it catches its own errors and returns generateMockLogs, so it
\* never rejects); the loop waits for its timer.  One generated log stands
\* for the four to six of a run.
MockGenerated ==
  \E c \in Commands :
    /\ exec[c] = "mock_gen"
    /\ exec' = [exec EXCEPT ![c] = "mock_timer"]
    /\ UNCHANGED <<isProcessing, useMockMode, connectionStatus, checks,
                   fallback, app_logs>>
    /\ UNCHANGED <<agent, control, stream, client, peer, reading, service>>

\* the 600 ms timer of the last generated log: setLogs, then addLog
MockTimer ==
  \E c \in Commands :
    /\ exec[c] = "mock_timer"
    /\ app_logs' = Append(Append(app_logs, Log(c, "mock")), Log(c, "mock_done"))
    /\ ExecuteReturns(c)
    /\ UNCHANGED <<useMockMode, connectionStatus, checks, fallback>>
    /\ UNCHANGED <<agent, control, stream, client, peer, reading, service>>

\* handleMockExecution started by onError (nobody awaits it)
FallbackGenerated ==
  \E c \in Commands :
    /\ fallback[c].gen > 0
    /\ fallback' = [fallback EXCEPT ![c].gen = @ - 1, ![c].timer = @ + 1]
    /\ UNCHANGED <<isProcessing, useMockMode, connectionStatus, checks, exec,
                   app_logs>>
    /\ UNCHANGED <<agent, control, stream, client, peer, reading, service>>

FallbackTimer ==
  \E c \in Commands :
    /\ fallback[c].timer > 0
    /\ app_logs' = Append(Append(app_logs, Log(c, "mock")), Log(c, "mock_done"))
    /\ fallback' = [fallback EXCEPT ![c].timer = @ - 1]
    /\ UNCHANGED <<isProcessing, useMockMode, connectionStatus, checks, exec>>
    /\ UNCHANGED <<agent, control, stream, client, peer, reading, service>>

AppNext ==
  \/ HealthTick \/ checkConnection \/ handleExecute \/ handleAbort
  \/ FetchSettles \/ ReadSettles \/ AbortedSettles
  \/ MockGenerated \/ MockTimer \/ FallbackGenerated \/ FallbackTimer

\* the App with one task state behind it
AppInit ==
  /\ Init
  /\ max_steps = 1
  /\ routing = Route(StageTask("plan"), LengthThreshold)

AppSpec == AppInit /\ [][AppNext]_vars

\* the AgentService under any caller: handleExecute at any moment, and
\* handleAbort whenever the service holds a controller, whatever the buttons
\* show
AbortHeld == abortController # NoController /\ Cancel
ServiceNext ==
  Execute \/ AbortHeld \/ FetchSettles \/ ReadSettles \/ AbortedSettles
ServiceSpec == AppInit /\ [][ServiceNext]_vars

(* ============================= properties ============================== *)

\* C1: in every reachable state the step counter is at most max_steps, and
\* the loop body has run at most max_steps times (one executing step is
\* recorded per iteration), however many keywords were discovered.
C1_StepBudget ==
  /\ current_step <= max_steps
  /\ CountIf(thought_chain, "executing") <= max_steps

\* the budget is used up while a discovered keyword is still queued
C1_Witness ==
  /\ pc = "critique"
  /\ current_step = max_steps
  /\ CountIf(thought_chain, "executing") = max_steps
  /\ pending_searches # <<>>

\* C2: provided every tool call and model call resolves, every task
\* eventually reaches completed or failed.
C2_Terminates == <>(current_phase \in Terminal)

\* C3: once the phase is completed or failed it never changes again, so no
\* task passes through both terminal phases.
C3_TerminalStable ==
  [][(current_phase \in Terminal) => (current_phase' = current_phase)]_vars

\* a task that failed after recovery, its stream fully written
C3_Witness == current_phase = "failed" /\ pc = "done" /\ error_count > 0

\* C4: the event stream of every task holds exactly one terminal event and
\* it is the last event: once the stream has ended there is one terminal
\* event, never zero and never two, and nothing follows it.
C4_OneTerminalEvent ==
  /\ TerminalCount(stream) <= 1
  /\ \A i \in 1..Len(stream) : IsTerminalEvent(stream[i]) => i = Len(stream)
  /\ pc \in {"closed", "done"} =>
       /\ TerminalCount(stream) = 1
       /\ IsTerminalEvent(stream[Len(stream)])

\* the transitions of the task state machine
PhaseEdges ==
  {<<"idle", "planning">>, <<"planning", "executing">>,
   <<"executing", "searching">>, <<"executing", "scraping">>,
   <<"searching", "executing">>, <<"scraping", "executing">>,
   <<"searching", "expanding">>, <<"scraping", "expanding">>,
   <<"executing", "expanding">>, <<"expanding", "executing">>,
   <<"executing", "critiquing">>, <<"expanding", "critiquing">>,
   <<"critiquing", "synthesizing">>, <<"synthesizing", "completed">>}

\* one phase change allowed by the state machine
PhaseStep ==
  \/ current_phase' = current_phase
  \/ <<current_phase, current_phase'>> \in PhaseEdges
  \/ /\ current_phase \notin Terminal \cup {"recovering"}
     /\ current_phase' = "recovering"
  \/ /\ current_phase = "recovering"
     /\ current_phase' \in {interrupted, "failed"}

\* C5: a task starts in idle, and every change of its phase is a transition
\* of the state machine: the forward chain, recovering from any non-terminal
\* phase, and recovering resolving only to the interrupted phase or failed.
C5_StateMachine == (current_phase = "idle") /\ [][PhaseStep]_vars

C7_AppendOnly == [][IsPrefix(thought_chain, thought_chain')]_vars

\* a chain that grew through a recovery and ended in failed
C7_Witness ==
  /\ Len(thought_chain) >= 4
  /\ CountIf(thought_chain, "recovering") > 0
  /\ thought_chain[Len(thought_chain)].phase = "failed"

\* C8: when one tool call was rate limited three times in a row, the task
\* fails with error kind rate-limited: it never goes on to critiquing,
\* synthesizing or completed, and it fails with no other kind.
C8_RateLimitAbort ==
  rl_exhausted =>
    /\ current_phase \notin {"critiquing", "synthesizing", "completed"}
    /\ current_phase = "failed" => error_kind = "rate_limited"

\* entering failed
EntersFailed == current_phase # "failed" /\ current_phase' = "failed"

\* C9 (as stated): on entering failed, collected-data, the credibility map
\* and the thought-chain are exactly what they were before.
C9_FailureKeepsAll ==
  [][EntersFailed =>
       /\ collected_data' = collected_data
       /\ credibility_scores' = credibility_scores
       /\ thought_chain' = thought_chain]_vars

\* C9 (amended): on entering failed, collected-data and the credibility map
\* are unchanged and the earlier thought-chain is a prefix of the new one
\* (the transition adds its own step); in failed none of the three changes.
C9_FailureKeepsWork ==
  [][/\ EntersFailed =>
          /\ collected_data' = collected_data
          /\ credibility_scores' = credibility_scores
          /\ IsPrefix(thought_chain, thought_chain')
     /\ current_phase = "failed" =>
          UNCHANGED <<collected_data, credibility_scores, thought_chain>>]_vars

\* a task failed after items were collected and scored
C9_Witness ==
  /\ current_phase = "failed"
  /\ collected_data # <<>>
  /\ DOMAIN credibility_scores # {}

\* C10: after a cancellation of a non-terminal task the only phase change is
\* to failed with the cancellation kind, no further phase work is done, and
\* the run does not stop short of failed with its final event.
C10_Cancellation ==
  /\ [][(aborted /\ current_phase \notin Terminal) =>
          /\ current_phase' # current_phase =>
               (current_phase' = "failed" /\ error_kind' = "cancelled")
          /\ thought_chain' # thought_chain => current_phase' = "failed"
          /\ UNCHANGED <<collected_data, credibility_scores,
                         pending_searches>>]_vars
  /\ []((aborted /\ pc = "closed") =>
          (current_phase = "failed" /\ TerminalCount(stream) = 1))

\* positions of run after the execute/expand loop
PostLoop == {"critique", "synth", "finish", "end", "done"}

\* C11: when the budget is reached while keywords are still queued, run
\* leaves the loop for critique without an error, the task's next phase is
\* critiquing, the queue is not processed any further, and the trail holds
\* exactly max_steps executing steps.
C11_BudgetFallThrough ==
  /\ []((pc \in PostLoop /\ current_step = max_steps) =>
          CountIf(thought_chain, "executing") = max_steps)
  /\ [][(/\ pc = "loop"
         /\ current_step >= max_steps
         /\ pending_searches # <<>>
         /\ pc' \notin {pc, "closed"}) =>
          /\ pc' = "critique"
          /\ mode' = "enter"
          /\ UNCHANGED <<pending_searches, current_phase, exc, error_count,
                         current_step>>]_vars
  /\ [][(pc = "critique" /\ mode = "enter" /\ current_phase' # current_phase)
          => current_phase' = "critiquing"]_vars
  /\ [][(pc \in PostLoop) => UNCHANGED pending_searches]_vars

\* a task completed with the budget used up and a keyword left in the queue
C11_Witness ==
  /\ current_phase = "completed"
  /\ current_step = max_steps
  /\ pending_searches # <<>>
  /\ error_count = 0

\* C12: no keyword is dequeued and expanded once the step counter has
\* reached max_steps: whenever an expansion is under way the counter is
\* still below the budget.
C12_NoExpandAtBudget == pc = "expand" => current_step < max_steps

\* C13: with an empty keyword queue the orchestrator goes on with the next
\* planned sub-task: when run has left the loop and no keyword was ever
\* discovered, either every planned sub-task was searched or the budget is
\* used up.
C13_ContinueSubTasks ==
  (pc \in {"critique", "synth", "finish"} /\ discovered_keywords = {}) =>
    (sub_tasks = 0 \/ current_step = max_steps)

\* keywords taken off the queue so far (every discovered keyword is queued
\* exactly once)
Dequeued == Cardinality(discovered_keywords) - Len(pending_searches)

\* C14: after a sub-task's search left a keyword in the queue, run takes
\* exactly the head of the queue and the task's next phase is expanding;
\* the queue only ever shrinks by its head, at that one point of the loop;
\* at most one keyword is dequeued per loop iteration and one search is
\* recorded per dequeued keyword.
C14_ExpandOne ==
  /\ [][(pc = "branch" /\ pending_searches # <<>> /\ pc' \notin {pc, "closed"})
          => /\ pc' = "expand"
             /\ mode' = "enter"
             /\ pending_searches' = Tail(pending_searches)
             /\ current_phase' = current_phase]_vars
  /\ [][(pc = "expand" /\ mode = "enter" /\ current_phase' # current_phase)
          => current_phase' = "expanding"]_vars
  /\ [][Len(pending_searches') < Len(pending_searches)
          => (pc = "branch" /\ pending_searches' = Tail(pending_searches))]_vars
  /\ [](/\ Dequeued <= current_step
        /\ CountIf(thought_chain, "expanding") <= Dequeued
        /\ Dequeued <= CountIf(thought_chain, "expanding") + 1
        /\ pc \in {"loop", "exec", "search", "branch", "critique", "synth",
                   "finish"}
             => CountIf(thought_chain, "expanding") = Dequeued)

\* one keyword was discovered by a sub-task's search, searched once, and the
\* queue is empty again
C14_Witness ==
  /\ pc = "loop"
  /\ Cardinality(discovered_keywords) = 1
  /\ pending_searches = <<>>
  /\ CountIf(thought_chain, "expanding") = 1

\* C15: a search that returns zero items is not an error: as long as no
\* call has failed and planning succeeded, whatever the searches return,
\* the task is never in recovering or failed and its error counter is 0,
\* and when such a run ends it is completed.
C15_ZeroItemsNoError ==
  (~faulted /\ exc = "none") =>
    /\ current_phase \notin {"recovering", "failed"}
    /\ error_count = 0
    /\ pc \in {"end", "done"} => current_phase = "completed"

\* every search returned zero items and the task completed with no item
C15_Witness ==
  /\ current_phase = "completed"
  /\ collected_data = <<>>
  /\ ~faulted
  /\ CountIf(thought_chain, "searching") + CountIf(thought_chain, "scraping")
       + CountIf(thought_chain, "expanding") >= 2

\* the entries of the keyword queue
Queued(queue) == {queue[i] : i \in 1..Len(queue)}

\* C16: the keyword queue never holds two entries that are equal after
\* normalisation, every entry is a discovered keyword in normal form, and
\* a step never adds a keyword that was already searched or queued.
C16_NoDuplicateKeywords ==
  /\ [](/\ \A i, j \in 1..Len(pending_searches) :
             Normalize(pending_searches[i]) = Normalize(pending_searches[j])
               => i = j
        /\ \A k \in Queued(pending_searches) :
             k \in discovered_keywords /\ Normalize(k) = k)
  /\ [][\A k \in Queued(pending_searches') \ Queued(pending_searches) :
          k \notin discovered_keywords]_vars
  /\ [][Len(pending_searches') - Len(pending_searches) <=
          Cardinality(discovered_keywords' \ discovered_keywords)]_vars

\* a second spelling of a searched keyword and of a queued keyword were
\* found again and the queue holds one entry
C16_Witness ==
  /\ discovered_keywords = {"y", "z"}
  /\ pending_searches = <<"z">>
  /\ CountIf(thought_chain, "expanding") = 1
  /\ CountIf(thought_chain, "executing") = 2
  /\ pc = "branch"

C18_FailedOnlyOnAbort ==
  /\ [](current_phase = "failed" => (exc # "none" /\ error_kind = exc))
  /\ [][EntersFailed => (pc = "except" /\ exc # "none")]_vars
  /\ [][exc' # exc =>
          /\ exc = "none"
          /\ \/ pc = "plan" /\ exc' = "planning"
             \/ /\ mode = "resolve"
                /\ attempt >= AttemptCap(last_kind)
                /\ exc' = last_kind]_vars
  /\ [][(mode = "resolve" /\ attempt < AttemptCap(last_kind)) =>
          (exc' = "none" /\ pc' # "except" /\ current_phase' \notin Terminal)]_vars

\* a call was blocked, retried once with another resource, blocked again,
\* and the task failed with that kind
C18_Witness ==
  /\ current_phase = "failed"
  /\ error_kind = "blocked"
  /\ error_count = 1
  /\ CountIf(thought_chain, "recovering") = 2

\* a tool call is tried again: on a retry verdict of the Recovery Policy, or
\* by the `continue` of _request_with_retry after a 403
RetryOfCall ==
  \/ /\ mode = "resolve"
     /\ mode' = "call"
     /\ exc' = exc
     /\ pc \in {"search", "expand"}
  \/ /\ pc \in {"search", "expand"}
     /\ req_attempt' = req_attempt + 1

\* C19: every retry of a tool call increments the error counter by one and
\* leaves the step counter unchanged.
C19_RetryCountsError ==
  [][RetryOfCall =>
       (error_count' = error_count + 1 /\ current_step' = current_step)]_vars

\* C20: the attempts of one tool call never exceed the cap of the error
\* kind (rate-limited 3, timeout 3, network 3, blocked 2, challenge 2: the
\* call and one resource switch); when the attempts reach the cap the
\* outcome is an abort of that kind, and no retry of the call follows.
C20_AttemptCaps ==
  /\ [](\A kind \in ErrorKinds :
          (last_kind = kind /\ attempt > AttemptCap(kind)) => mode = "resolve")
  /\ [](attempt <= AttemptCap("rate_limited"))
  /\ [](req_attempt <= AttemptCap("rate_limited"))
  /\ [][(mode = "resolve" /\ attempt >= AttemptCap(last_kind)) =>
          (mode' = "resolve" \/ exc' = last_kind)]_vars
  /\ [][(req_attempt = AttemptCap("rate_limited")
           /\ req_attempt' # req_attempt) =>
          exc' = "rate_limited"]_vars
  /\ [][rl_exhausted => ~RetryOfCall]_vars

\* the attempt counts the policy is asked about
Attempts == 1..max_retries

\* what the policy answers, for every error kind and attempt count
PolicyTable == [kind \in ErrorKinds, n \in Attempts |-> Verdict(kind, n)]

C22_UnclassifiedAsBlocked ==
  /\ AttemptCap("unclassified") = AttemptCap("blocked")
  /\ (mode = "resolve" /\ last_kind = "unclassified") =>
       /\ Verdict(last_kind, attempt) = Verdict("blocked", attempt)
       /\ Verdict(last_kind, attempt) # "retry_same"

\* the phases in which work on sub-tasks is done
WorkPhases ==
  {"executing", "searching", "scraping", "expanding", "critiquing",
   "synthesizing"}

\* C23: once planning has returned zero sub-tasks (PlanningError) the task
\* is never in a working phase and never completes, no retry is made (the
\* error counter and the step counter stay as they were, no verdict is
\* asked for), and when the run ends the task is failed with kind planning.
C23_PlanningFailure ==
  /\ [](exc = "planning" =>
          /\ current_phase \in {"planning", "recovering", "failed"}
          /\ \A i \in 1..Len(thought_chain) :
               thought_chain[i].phase \notin WorkPhases \cup {"completed"}
          /\ current_step = 0
          /\ mode # "resolve"
          /\ pc \in {"end", "done"} =>
               (current_phase = "failed" /\ error_kind = "planning"))
  /\ [][(pc = "plan" /\ exc' = "planning") =>
          (pc' = "except" /\ UNCHANGED <<error_count, current_phase>>)]_vars
  /\ [][exc = "planning" =>
          (exc' = "planning" /\ UNCHANGED <<error_count, current_step>>)]_vars

\* planning returned nothing and the task failed with the planning kind
C23_Witness ==
  /\ exc = "planning"
  /\ current_phase = "failed"
  /\ error_kind = "planning"
  /\ thought_chain[Len(thought_chain)].phase = "failed"

\* C24: for every routed call the selected tier is heavy exactly when the
\* stage is critique or synthesize or the input is longer than 5000
\* characters; a critique or synthesize call is never given the light tier.
C24_TierSelection ==
  routing # NoRouting =>
    /\ routing.tier \in {"light", "heavy"}
    /\ routing.tier = "heavy" <=>
         (pc \in {"critique", "synth"} \/ routing.len > LengthThreshold)
    /\ routing.task \in heavy_tasks => routing.tier = "heavy"

\* C25: whenever the phase is synthesizing or completed, the critique step
\* is in the thought-chain and every collected item has an entry in the
\* credibility-score map, with a score from the scale.
C25_ScoredBeforeSynthesis ==
  current_phase \in {"synthesizing", "completed"} =>
    /\ CountIf(thought_chain, "critiquing") = 1
    /\ Keys(collected_data) \subseteq DOMAIN credibility_scores
    /\ \A k \in Keys(collected_data) : credibility_scores[k] \in Scores

\* synthesizing with a collected item that critique has scored
C25_Witness ==
  /\ current_phase = "synthesizing"
  /\ collected_data = <<"a">>
  /\ DOMAIN credibility_scores = {"a"}
  /\ credibility_scores["a"] = 9

\* C26: collected_data holds at most one entry per source id, so the item
\* count is the number of distinct source ids; a step that brings no new
\* source id leaves collected_data as it was, and a step never removes or
\* reorders what was collected.
C26_UniqueItems ==
  /\ [](/\ \A i, j \in 1..Len(collected_data) :
             collected_data[i] = collected_data[j] => i = j
        /\ Len(collected_data) = Cardinality(Keys(collected_data)))
  /\ [][/\ Keys(collected_data') = Keys(collected_data) =>
             collected_data' = collected_data
        /\ IsPrefix(collected_data, collected_data')]_vars

\* an item was collected and a further search or expansion has returned
C26_Witness ==
  /\ collected_data = <<"a">>
  /\ CountIf(thought_chain, "searching") + CountIf(thought_chain, "scraping")
       + CountIf(thought_chain, "expanding") >= 2
  /\ pc = "loop"

\* the first task's own fields and the position of its run
FirstTask == <<agent, control, stream>>

C30_OnCompleteOnce ==
  /\ n_complete <= 1
  /\ (\E i \in 1..client_pos : stream[i].type = "complete") <=> n_complete = 1

\* C32: _request_with_retry makes at most max_retries attempts, and once
\* every attempt was rate limited the call ends with an error that reaches
\* its caller: either the function has not returned yet, or a rate-limited
\* error is raised or recorded; it never returns without a response.
C32_RetryExhaustionSurfaces ==
  /\ req_attempt <= max_retries
  /\ rl_exhausted =>
       \/ (mode = "call" /\ req_attempt = max_retries)
       \/ exc = "rate_limited"
       \/ error_kind = "rate_limited"

\* the data lines of a whole body, a last line without a line feed included
DataLines(b) == Dispatch(split(b))

\* the data lines of a whole body that end with a line feed
TerminatedDataLines(b) ==
  LET lines == split(b) IN Dispatch(SubSeq(lines, 1, Len(lines) - 1))

\* C38: when a response body has been read to its end, every data line of
\* the body has been dispatched exactly once and in stream order, however
\* the body was split into chunks; this includes a data line split across
\* two chunks and a last data line with no line feed after it.
C38_ChunkingIndependent ==
  reader = "done" => dispatched = DataLines(body)

\* what the read loop does dispatch: the terminated data lines, whatever the
\* chunking
C38_TerminatedOnly ==
  reader = "done" => dispatched = TerminatedDataLines(body)

\* the requests whose fetch or read is pending and was not aborted
InFlight == {c \in Commands : req[c] \in {"fetch", "read"} /\ c \notin signal}

\* C31: an AgentService instance has at most one streaming request in
\* flight: the request a call of executeWithStream starts is the only one
\* not aborted, and no callback is invoked for a request that was aborted or
\* replaced by a later call.
C31_OneRequestInFlight ==
  /\ Cardinality(InFlight) <= 1
  /\ \A c \in InFlight : abortController = c
  /\ late = {}

\* a second call of executeWithStream (no abort() between the two calls)
\* found the first request in flight after a callback; the first request
\* has ended and the second has since made a callback of its own
C31_Witness ==
  /\ 1 \in signal
  /\ req[1] = "resolved"
  /\ lines_read[1] > 0
  /\ req[2] = "read"
  /\ lines_read[2] > 0
  /\ \A i \in 1..Len(app_logs) : app_logs[i].kind # "cancel"

\* C37: a streaming request that was aborted ends silently: neither onError
\* nor onComplete is invoked for it once abort() was called, and its promise
\* does not reject.
C37_AbortIsSilent ==
  \A c \in signal :
    /\ <<c, "onError">> \notin late
    /\ <<c, "onComplete">> \notin late
    /\ req[c] # "rejected"

\* handleAbort was called while the request was being read, after a thought
\* had been logged; the promise has resolved and the cancellation is the
\* last entry of the log
C37_Witness ==
  /\ 1 \in signal
  /\ req[1] = "resolved"
  /\ lines_read[1] > 0
  /\ exec[1] = "done"
  /\ app_logs[Len(app_logs)] = Log(0, "cancel")
  /\ \E i \in 1..Len(app_logs) : app_logs[i] = Log(1, "thought")

\* the errors reported for a command (onError was invoked that many times,
\* and started a mock execution each time)
AlertCount(c) ==
  Cardinality({i \in 1..Len(app_logs) : app_logs[i] = Log(c, "alert")})

\* C33: an error of a real execution starts the mock execution of that
\* command once and no more, and while that mock execution has not finished
\* the command is not reported finished: handleExecute has not returned and
\* isProcessing is true.
C33_FallbackOnceAndAwaited ==
  \A c \in Commands :
    /\ AlertCount(c) <= 1
    /\ fallback[c] # NoFallback => (isProcessing /\ exec[c] # "done")

\* C34: from a failure of the connection during handleRealExecution until
\* the next health check, the App is in demo mode (useMockMode is true).
C34_ConnectionFailureDemoMode ==
  net_failed => useMockMode

\* an execution that can still append logs: a request being fetched or
\* read, or a mock execution awaiting its logs or a timer
Appending(c) ==
  \/ exec[c] = "real" /\ req[c] \in {"fetch", "read"} /\ c \notin signal
  \/ exec[c] \in {"mock_gen", "mock_timer"}
  \/ fallback[c] # NoFallback

\* C35: isProcessing is true whenever an execution can still append logs,
\* and at most one command is executing at any moment.
C35_OneExecution ==
  /\ (\E c \in Commands : Appending(c)) => isProcessing
  /\ Cardinality({c \in Commands : Appending(c)}) <= 1

\* the command whose execution a cancellation at position j aborts: the last
\* one echoed before it (0 when there is none)
AbortedAt(j) ==
  LET echoed == {app_logs[i].cmd : i \in {k \in 1..(j - 1) :
                                           app_logs[k].kind = "echo"}}
  IN IF echoed = {} THEN 0
     ELSE CHOOSE c \in echoed : \A d \in echoed : d <= c

\* C36: no log entry of the aborted execution follows the cancellation
\* entry of handleAbort in the log list.
C36_NoLogAfterCancel ==
  \A j \in 1..Len(app_logs) :
    app_logs[j].kind = "cancel" =>
      \A k \in (j + 1)..Len(app_logs) :
        app_logs[k].cmd = 0 \/ app_logs[k].cmd # AbortedAt(j)

====
